---- MODULE Spec2Model ----
(***************************************************************************)
(* Lead lifecycle orchestration of lead-funnel-agent: the Close lead        *)
(* store, the nurture cadence of EmailEngine, form submission and the       *)
(* periodic sweep of LeadAgent, the inbound email / SMS / call-ended        *)
(* handlers, the "update lead" operator command of SlackBot, the proactive  *)
(* call run, and, each in isolation, the call policy, the call-outcome      *)
(* classifier and CloseClient.upsert_lead.                                  *)
(*                                                                         *)
(* Time is counted in whole days (datetime + timedelta(days=n) is exact).   *)
(* Every HTTP call to an external service is a step that succeeds or fails; *)
(* the outcome is an input of the action that makes the call.               *)
(***************************************************************************)
EXTENDS Integers, Sequences, FiniteSets, TLC

\* ------------------------------------------------------------------ bounds
\* number of lead slots of the store (one external submission id each)
NumLeads == 1
\* days the clock may advance after the first observed day
MaxDays == 1
\* largest last-send day drawn for the cadence function
MaxLast == 2
\* largest step number handed to the cadence function
MaxProbeStep == 10

Leads == 1..NumLeads

\* ------------------------------------------------- stored timestamp strings
\* custom.last_email_sent is a string: "" or datetime.isoformat() text.
EmptyStr == [kind |-> "empty", t |-> 0]
MalformedStr == [kind |-> "bad", t |-> 0]

\* datetime.utcnow().isoformat()
isoformat(t) == [kind |-> "iso", t |-> t]

\* datetime.fromisoformat: raises ValueError on text that is not ISO
fromisoformat(s) ==
  IF s.kind = "iso" THEN [ok |-> TRUE, t |-> s.t] ELSE [ok |-> FALSE, t |-> 0]

\* ------------------------------------------------------ EmailEngine cadence
\* the schedule dict of get_next_email_date
schedule == [n \in 1..8 |-> CASE n = 1 -> 0 [] n = 2 -> 3 [] n = 3 -> 7
                              [] n = 4 -> 10 [] n = 5 -> 14 [] n = 6 -> 17
                              [] n = 7 -> 21 [] OTHER -> 28]

\* schedule.get(step, 0)
schedule_get(step) == IF step \in DOMAIN schedule THEN schedule[step] ELSE 0

\* get_next_email_date(step, last_sent): last_sent is None or a datetime;
\* a datetime is always truthy.
get_next_email_date(step, last_sent, utcnow) ==
  IF last_sent.some THEN last_sent.t + schedule_get(step)
                    ELSE utcnow + schedule_get(step)

should_send_email_strict(last_sent_str, step, utcnow) ==
  IF last_sent_str.kind = "empty" THEN step = 1
  ELSE LET p == fromisoformat(last_sent_str) IN
       IF ~p.ok THEN FALSE
       ELSE utcnow > get_next_email_date(step, [some |-> TRUE, t |-> p.t], utcnow)

should_send_email_first_two(last_sent_str, step, utcnow) ==
  IF last_sent_str.kind = "empty" THEN step <= 2
  ELSE LET p == fromisoformat(last_sent_str) IN
       IF ~p.ok THEN FALSE
       ELSE utcnow >= get_next_email_date(step, [some |-> TRUE, t |-> p.t], utcnow)

should_send_email_never_parsed(last_sent_str, step, utcnow) ==
  IF last_sent_str.kind = "empty" THEN step = 1 ELSE FALSE

\* should_send_email(lead_data, step); lead_data.custom.last_email_sent is
\* last_sent_str, datetime.utcnow() is utcnow.
should_send_email(last_sent_str, step, utcnow) ==
  IF last_sent_str.kind = "empty" THEN step = 1
  ELSE LET p == fromisoformat(last_sent_str) IN
       IF ~p.ok THEN FALSE
       ELSE utcnow >= get_next_email_date(step, [some |-> TRUE, t |-> p.t], utcnow)

\* ------------------------------------------------------------ lead store
\* custom.agent_state values written by the code
States == {"NEW", "NURTURING", "ENGAGED", "BOOKED", "SEQUENCE_COMPLETE",
           "CALLING", "CALL_BOOKED", "CLOSED_LOST"}

\* the first day observed: late enough for a lead whose last email left on
\* day 0 to be due for any step
StartDay == schedule[8]

\* a lead slot nobody has submitted yet
Absent == [exists |-> FALSE, agent_state |-> "NEW", email_sequence_step |-> 0,
           last_email_sent |-> EmptyStr, booked |-> FALSE]

\* the custom fields _create_lead posts
CreatedLead == [exists |-> TRUE, agent_state |-> "NEW", email_sequence_step |-> 0,
                last_email_sent |-> EmptyStr, booked |-> FALSE]

\* leads already in the nurture sequence when observation starts: one the
\* welcome email has not reached, two at cursor 2 (step 3 due, and not yet due),
\* one whose last step is due and one that has had all eight
NurturingLeads ==
  {[CreatedLead EXCEPT !.agent_state = "NURTURING"]}
  \cup {[CreatedLead EXCEPT !.agent_state = "NURTURING",
                            !.email_sequence_step = c[1],
                            !.last_email_sent = isoformat(c[2])] :
          c \in {<<2, 0>>, <<2, StartDay - 2>>, <<7, 0>>, <<8, 0>>}}

VARIABLES
  store,      \* Close CRM: lead slot -> custom fields of the lead
  bookings,   \* Calendly: leads whose email is invitee of a scheduled event
  now,        \* datetime.utcnow(), in days
  call,       \* handle_inbound_email or handle_inbound_sms waiting for
              \* analyze_message
  sweep,      \* run_scheduled_tasks in progress
  quiet,      \* "first": a sweep is running and nothing else has happened
              \* since it started; "after": such a sweep returned and nothing
              \* has happened since; "rerun": a sweep started in that
              \* situation is running undisturbed; "no" otherwise
  op,         \* what the handler step that is returning did; OpNone between
              \* steps
  probe,      \* a pure function called in isolation: its arguments, its result
  activity,   \* Close CRM: lead slot -> the activity notes Close accepted, in
              \* order; followed by the store-persistence specification
  upsert      \* CloseClient.upsert_lead: the number of lead records Close
              \* holds per external id and the calls in progress; followed by
              \* the upsert specification

vars == <<store, bookings, now, call, sweep, quiet, op, probe, activity, upsert>>

\* --------------------------------------------- one handler's effects so far
\* st: the lead's stored fields; emails, sms, notifs, writes, logs: the calls
\* made to SendGrid, Twilio, Slack, Close and the report generator; raised: an
\* exception propagates
Ctx(rec) == [st |-> rec, emails |-> <<>>, sms |-> <<>>, notifs |-> <<>>,
             writes |-> <<>>, logs |-> <<>>, reports |-> <<>>, raised |-> FALSE]

raise(x) == [x EXCEPT !.raised = TRUE]

\* CloseClient._log_activity: the note is POSTed; the caller never learns
\* whether the POST was accepted
log_activity(x, note) ==
  IF x.raised THEN x ELSE [x EXCEPT !.logs = Append(@, note)]

\* SlackBot.send_notification
send_notification(x, kind) ==
  IF x.raised THEN x ELSE [x EXCEPT !.notifs = Append(@, kind)]

\* what chat_postMessage can do: deliver, raise SlackApiError (the API
\* answered with an error), or raise anything else (the API was not reached)
SlackOutcomes == {"ok", "SlackApiError", "error"}

\* SlackBot.send_message, called by send_notification: SlackApiError is
\* caught and printed, any other exception goes to the caller
send_message(x, kind, slack) ==
  IF x.raised THEN x
  ELSE IF slack = "ok" THEN [x EXCEPT !.notifs = Append(@, kind)]
  ELSE IF slack = "SlackApiError" THEN x
  ELSE raise(x)

\* EmailEngine._send_email: False when SendGrid fails, never raises
send_email(x, kind, step, ok) ==
  IF x.raised THEN x
  ELSE [x EXCEPT !.emails = Append(@, [kind |-> kind, step |-> step, ok |-> ok])]

\* SMSHandler._send_sms
send_sms(x, kind, ok) ==
  IF x.raised THEN x ELSE [x EXCEPT !.sms = Append(@, [kind |-> kind, ok |-> ok])]

\* CloseClient.update_lead_state: PUT custom.agent_state, raise unless 200
update_lead_state(x, new_state, putOk) ==
  IF x.raised THEN x
  ELSE IF putOk
    THEN log_activity(
           [x EXCEPT !.st.agent_state = new_state,
                     !.writes = Append(@, [from |-> x.st.agent_state, to |-> new_state])],
           [note |-> "state_changed", arg |-> new_state])
    ELSE raise(x)

\* CloseClient.mark_as_booked: PUT custom.booked = yes, {} unless 200
mark_as_booked(x, putOk) ==
  IF x.raised \/ ~putOk THEN x
  ELSE log_activity([x EXCEPT !.st.booked = TRUE],
                    [note |-> "booking_detected", arg |-> ""])

\* CloseClient.update_email_tracking: PUT step and last_email_sent, {} unless 200
update_email_tracking(x, email_step, utcnow, putOk) ==
  IF x.raised \/ ~putOk THEN x
  ELSE log_activity([x EXCEPT !.st.email_sequence_step = email_step,
                              !.st.last_email_sent = isoformat(utcnow)],
                    [note |-> "sent_email", arg |-> ""])

generate_report_unraised(x, step, ok) ==
  IF x.raised THEN x
  ELSE IF ok THEN [x EXCEPT !.reports = Append(@, step)] ELSE x

\* ReportGenerator.generate_report: raises when the Anthropic call fails
generate_report(x, step, ok) ==
  IF x.raised THEN x
  ELSE IF ok THEN [x EXCEPT !.reports = Append(@, step)] ELSE raise(x)

\* CalendlyChecker.check_booking: raises when the user URI cannot be fetched
check_booking(lead, booked_leads, apiOk) ==
  IF ~apiOk THEN "error" ELSE IF lead \in booked_leads THEN "found" ELSE "none"

\* ------------------------------------------------------ handler records
NoLead == 0
NoAnalysis == [should_escalate |-> FALSE, next_action |-> "none"]
NoResults == [emails_sent |-> 0, bookings_detected |-> 0, escalations |-> 0,
              leads_processed |-> 0]
Flags == [resolved |-> TRUE, analyzer |-> FALSE, rerun |-> FALSE, bk |-> "unchecked",
          cursor |-> 0, status |-> "", analysis |-> NoAnalysis, results |-> NoResults,
          cached |-> FALSE]

\* the record of a completed step: the lead it was about, the agent_state the
\* store held before it (pre), whether it changed a stored field of the lead,
\* the sequence step of the dict a sweep pass worked on (cursor), the
\* whether the lead_data dict an inbound handler worked on held NURTURING
\* (cached)
Done(name, lead, pre, x, f) ==
  [name |-> name, lead |-> lead, pre |-> pre.agent_state, changed |-> (x.st # pre),
   emails |-> x.emails, sms |-> x.sms, notifs |-> x.notifs,
   writes |-> x.writes, logs |-> x.logs, reports |-> x.reports,
   raised |-> x.raised,
   resolved |-> f.resolved, analyzer |-> f.analyzer, rerun |-> f.rerun,
   bk |-> f.bk, cursor |-> f.cursor, status |-> f.status, analysis |-> f.analysis,
   results |-> f.results, cached |-> f.cached]

OpNone == [name |-> "none", lead |-> NoLead, pre |-> "NEW", changed |-> FALSE,
           emails |-> <<>>, sms |-> <<>>, notifs |-> <<>>,
           writes |-> <<>>, logs |-> <<>>, reports |-> <<>>, raised |-> FALSE,
           resolved |-> TRUE, analyzer |-> FALSE, rerun |-> FALSE,
           bk |-> "unchecked", cursor |-> 0, status |-> "", analysis |-> NoAnalysis,
           results |-> NoResults, cached |-> FALSE]

NoCall == [busy |-> FALSE, channel |-> "none", lead |-> NoLead, agent_state |-> "NEW"]
SweepIdle == [pc |-> "idle", todo |-> <<>>, results |-> NoResults]

\* the calls of upsert_lead that can be in progress at once (the webhook
\* server and the submission job each make them)
NumWorkers == 2
Workers == 1..NumWorkers
NoRequest == [pc |-> "idle", lead |-> NoLead, existing_lead |-> FALSE, status |-> ""]
NoUpsert == [records |-> [l \in Leads |-> 0], requests |-> [w \in Workers |-> NoRequest]]

\* an outcome is drawn only for a call that is made
Outcome(made) == IF made THEN BOOLEAN ELSE {TRUE}

\* --------------------------------------------------------- form submission
\* LeadAgent._handle_booked_lead
handle_booked_lead(x, utcnow, in) ==
  LET x1 == mark_as_booked(x, in.markOk)
      x2 == update_lead_state(x1, "BOOKED", in.stateOk)
      x3 == send_email(x2, "asset_pack", 0, in.sendOk)
      x4 == IF in.sendOk
              THEN update_email_tracking(x3, 0, utcnow, in.trackOk)
              ELSE x3
  IN send_message(x4, "new_booked_lead", in.slack)

\* LeadAgent._handle_unbooked_lead
handle_unbooked_lead(x, utcnow, in) ==
  LET x1 == update_lead_state(x, "NURTURING", in.stateOk)
      x2 == send_email(x1, "nurture", 1, in.sendOk)
      x3 == IF in.sendOk
              THEN update_email_tracking(x2, 1, utcnow, in.trackOk)
              ELSE x2
  IN send_message(x3, "new_lead_entered_nurture", in.slack)

upsert_lead_recreate(x, ok) ==
  IF ~ok THEN raise(x)
  ELSE log_activity([x EXCEPT !.st = CreatedLead],
                    [note |-> "lead_created", arg |-> ""])

\* CloseClient.upsert_lead: _update_lead for a known external id, else
\* _create_lead; both raise unless 200
upsert_lead(x, ok) ==
  IF ~ok THEN raise(x)
  ELSE IF x.st.exists
    THEN log_activity(x, [note |-> "lead_updated", arg |-> ""])
    ELSE log_activity([x EXCEPT !.st = CreatedLead],
                      [note |-> "lead_created", arg |-> ""])

\* LeadAgent.process_typeform_submission
process_typeform_submission(x, bk, utcnow, in) ==
  LET x1 == upsert_lead(x, in.upsertOk) IN
  IF x1.raised THEN x1
  ELSE IF bk = "error" THEN raise(x1)
  ELSE IF bk = "found" THEN handle_booked_lead(x1, utcnow, in)
  ELSE handle_unbooked_lead(x1, utcnow, in)

Submit(l) ==
  /\ op = OpNone
  /\ \E upsertOk \in BOOLEAN :
     \E calOk \in Outcome(upsertOk) :
     \E markOk \in Outcome(upsertOk /\ calOk /\ l \in bookings) :
     \E stateOk \in Outcome(upsertOk /\ calOk) :
     \E sendOk \in Outcome(upsertOk /\ calOk /\ stateOk) :
     \E trackOk \in Outcome(upsertOk /\ calOk /\ stateOk /\ sendOk) :
       LET in == [upsertOk |-> upsertOk, markOk |-> markOk,
                  stateOk |-> stateOk, sendOk |-> sendOk, trackOk |-> trackOk,
                  slack |-> "ok"]
           bk == check_booking(l, bookings, calOk)
           x == process_typeform_submission(Ctx(store[l]), bk, now, in)
       IN /\ store' = [store EXCEPT ![l] = x.st]
          /\ op' = Done("submit", l, store[l], x,
                        [Flags EXCEPT !.bk = bk,
                                      !.status = IF x.raised THEN "error" ELSE "success"])
          /\ quiet' = "no"
          /\ UNCHANGED <<bookings, now, call, sweep, probe, activity, upsert>>

\* ----------------------------------------------------------- environment
\* the lead books a call on Calendly
Book(l) ==
  /\ op = OpNone
  /\ l \notin bookings
  /\ bookings' = bookings \cup {l}
  /\ quiet' = "no"
  /\ UNCHANGED <<store, now, call, sweep, op, probe, activity, upsert>>

\* a day passes
Tick ==
  /\ op = OpNone
  /\ now < StartDay + MaxDays
  /\ now' = now + 1
  /\ quiet' = "no"
  /\ UNCHANGED <<store, bookings, call, sweep, op, probe, activity, upsert>>

\* ---------------------------------------------------------- periodic sweep
\* LeadAgent._get_nurturing_leads, as the query its comment describes ("query
\* Close CRM for leads with agent_state = NURTURING"): the leads whose
\* agent_state is NURTURING, as one query of the store returns them. The body
\* in agent.py is a placeholder that returns [].
get_nurturing_leads(st) ==
  LET fetched == SelectSeq([l \in 1..NumLeads |-> l],
                           LAMBDA l : st[l].exists /\ st[l].agent_state = "NURTURING")
  IN [i \in 1..Len(fetched) |->
        [id |-> fetched[i],
         email_sequence_step |-> st[fetched[i]].email_sequence_step,
         last_email_sent |-> st[fetched[i]].last_email_sent]]

\* LeadAgent._convert_to_booked
convert_to_booked(x, in) ==
  LET x1 == mark_as_booked(x, in.markOk)
      x2 == update_lead_state(x1, "BOOKED", in.stateOk)
      x3 == send_email(x2, "asset_pack", 0, in.sendOk)
  IN send_notification(x3, "converted_to_booked")

sequence_complete_after_nine(next_step) == next_step > 9

\* the test "next_step > 8" of _process_nurturing_lead
sequence_complete(next_step) == next_step > 8

ResultEscalated == [email_sent |-> FALSE, booking_detected |-> FALSE, escalated |-> TRUE]

NoResult == [email_sent |-> FALSE, booking_detected |-> FALSE, escalated |-> FALSE]

\* LeadAgent._process_nurturing_lead: lead is the dict fetched by
\* _get_nurturing_leads, x.st the fields the store holds now
process_nurturing_lead(x, lead, bk, utcnow, in) ==
  LET current_step == lead.email_sequence_step
      next_step == current_step + 1
  IN
  IF bk = "error" THEN [x |-> raise(x), result |-> NoResult]
  ELSE IF bk = "found"
    THEN [x |-> convert_to_booked(x, in),
          result |-> [NoResult EXCEPT !.booking_detected = TRUE]]
  ELSE IF sequence_complete(next_step)
    THEN [x |-> update_lead_state(send_notification(x, "lead_completed_sequence"),
                                  "SEQUENCE_COMPLETE", in.stateOk),
          result |-> [NoResult EXCEPT !.escalated = TRUE]]
  ELSE IF should_send_email(lead.last_email_sent, next_step, utcnow)
    THEN LET x1 == IF next_step \in {3, 5, 7}
                     THEN generate_report(x, next_step, in.reportOk)
                     ELSE x
             x2 == send_email(x1, "nurture", next_step, in.sendOk)
             x3 == IF in.sendOk
                     THEN update_email_tracking(x2, next_step, utcnow, in.trackOk)
                     ELSE x2
             x4 == IF in.sendOk /\ next_step = 4
                     THEN send_notification(x3, "milestone_email_4")
                     ELSE x3
         IN [x |-> x4, result |-> [NoResult EXCEPT !.email_sent = in.sendOk]]
  ELSE [x |-> x, result |-> NoResult]

\* run_scheduled_tasks, up to the loop
SweepStart ==
  /\ op = OpNone
  /\ sweep.pc = "idle"
  /\ sweep' = [pc |-> "run", todo |-> get_nurturing_leads(store), results |-> NoResults]
  /\ quiet' = IF quiet = "after" THEN "rerun" ELSE "first"
  /\ UNCHANGED <<store, bookings, now, call, op, probe, activity, upsert>>

\* run_scheduled_tasks, one iteration of the loop with its try / except
SweepLead ==
  /\ op = OpNone
  /\ sweep.pc = "run"
  /\ sweep.todo # <<>>
  /\ LET lead == Head(sweep.todo) IN
     \E calOk \in BOOLEAN :
     \E markOk \in Outcome(calOk /\ lead.id \in bookings) :
     \E stateOk \in Outcome(calOk) :
     \E reportOk \in Outcome(calOk /\ lead.id \notin bookings
                               /\ lead.email_sequence_step + 1 \in {3, 5, 7}) :
     \E sendOk \in Outcome(calOk /\ stateOk /\ reportOk) :
     \E trackOk \in Outcome(calOk /\ stateOk /\ sendOk) :
       LET in == [markOk |-> markOk, stateOk |-> stateOk,
                  sendOk |-> sendOk, trackOk |-> trackOk, reportOk |-> reportOk]
           bk == check_booking(lead.id, bookings, calOk)
           r == process_nurturing_lead(Ctx(store[lead.id]), lead, bk, now, in)
           x == IF r.x.raised
                  THEN [r.x EXCEPT !.notifs = Append(@, "error_processing_lead")]
                  ELSE r.x
           res == sweep.results
           results == IF r.x.raised THEN res
                      ELSE [leads_processed |-> res.leads_processed + 1,
                            emails_sent |-> res.emails_sent
                                            + (IF r.result.email_sent THEN 1 ELSE 0),
                            bookings_detected |-> res.bookings_detected
                                            + (IF r.result.booking_detected THEN 1 ELSE 0),
                            escalations |-> res.escalations
                                            + (IF r.result.escalated THEN 1 ELSE 0)]
       IN /\ store' = [store EXCEPT ![lead.id] = x.st]
          /\ sweep' = [sweep EXCEPT !.todo = Tail(@), !.results = results]
          /\ op' = Done("sweep_lead", lead.id, store[lead.id], x,
                        [Flags EXCEPT !.bk = bk, !.rerun = (quiet = "rerun"),
                                      !.cursor = lead.email_sequence_step,
                                      !.results = results,
                                      !.status = IF r.x.raised THEN "error" ELSE "processed"])
          /\ UNCHANGED <<bookings, now, call, quiet, probe, activity, upsert>>

\* run_scheduled_tasks, the summary and the return
SweepFinish ==
  /\ op = OpNone
  /\ sweep.pc = "run"
  /\ sweep.todo = <<>>
  /\ op' = Done("sweep_summary", NoLead, Absent,
                send_notification(Ctx(Absent), "scheduled_run_complete"),
                [Flags EXCEPT !.results = sweep.results, !.rerun = (quiet = "rerun"),
                              !.status = "returned"])
  /\ sweep' = SweepIdle
  /\ quiet' = IF quiet \in {"first", "rerun"} THEN "after" ELSE "no"
  /\ UNCHANGED <<store, bookings, now, call, probe, activity, upsert>>

\* --------------------------------------------------------- inbound router
\* next_action values of the analysis prompt
NextActions == {"send_response", "book_call", "escalate", "send_resources",
                "end_conversation"}
Analyses == [should_escalate : BOOLEAN, next_action : NextActions]

\* the sender of an inbound message: the contact of a lead slot, or nobody's
Senders == Leads \cup {NoLead}

\* get_lead_by_email / _find_lead_by_phone: None unless the query returns 200
\* and a lead has the address
find_lead(st, sender, ok) ==
  IF ok /\ sender \in Leads /\ st[sender].exists THEN sender ELSE NoLead

handle_based_on_analysis_action_first(x, analysis, in) ==
  LET y == send_notification(x, "email_reply")
      action == analysis.next_action
  IN
  IF action = "book_call"
    THEN [x |-> log_activity(send_email(y, "booking_link", 0, in.sendOk),
                             [note |-> "sent_booking_link", arg |-> ""]),
          status |-> "booking_sent"]
  ELSE IF action = "send_response"
    THEN [x |-> log_activity(
                  log_activity(send_email(y, "ai_response", 0, in.sendOk),
                               [note |-> "ai_response_sent", arg |-> ""]),
                  [note |-> "conversation_agent", arg |-> ""]),
          status |-> "response_sent"]
  ELSE IF action = "end_conversation"
    THEN [x |-> send_notification(
                  update_lead_state(y, "CLOSED_LOST", in.closeOk),
                  "lead_not_interested"),
          status |-> "closed"]
  ELSE IF analysis.should_escalate
    THEN [x |-> send_email(
                  log_activity(send_notification(y, "escalation_needed"),
                               [note |-> "escalated", arg |-> ""]),
                  "holding", 0, in.sendOk),
          status |-> "escalated"]
  ELSE [x |-> y, status |-> "handled"]

\* EmailReplyHandler._handle_based_on_analysis
handle_based_on_analysis(x, analysis, in) ==
  LET y == send_notification(x, "email_reply")
      action == analysis.next_action
  IN
  IF analysis.should_escalate
    THEN [x |-> send_email(
                  log_activity(send_notification(y, "escalation_needed"),
                               [note |-> "escalated", arg |-> ""]),
                  "holding", 0, in.sendOk),
          status |-> "escalated"]
  ELSE IF action = "book_call"
    THEN [x |-> log_activity(send_email(y, "booking_link", 0, in.sendOk),
                             [note |-> "sent_booking_link", arg |-> ""]),
          status |-> "booking_sent"]
  ELSE IF action = "send_response"
    THEN [x |-> log_activity(
                  log_activity(send_email(y, "ai_response", 0, in.sendOk),
                               [note |-> "ai_response_sent", arg |-> ""]),
                  [note |-> "conversation_agent", arg |-> ""]),
          status |-> "response_sent"]
  ELSE IF action = "end_conversation"
    THEN [x |-> send_notification(
                  update_lead_state(y, "CLOSED_LOST", in.closeOk),
                  "lead_not_interested"),
          status |-> "closed"]
  ELSE [x |-> y, status |-> "handled"]

engage_unless_engaged(x, lead_data, putOk) ==
  IF lead_data.agent_state # "ENGAGED"
    THEN update_lead_state(x, "ENGAGED", putOk)
    ELSE x

\* "if lead_data.get("custom", {}).get("agent_state") == "NURTURING":
\* update_lead_state(lead_id, "ENGAGED")" of handle_inbound_email and
\* handle_inbound_sms; lead_data is the dict read before analyze_message
engage(x, lead_data, putOk) ==
  IF lead_data.agent_state = "NURTURING"
    THEN update_lead_state(x, "ENGAGED", putOk)
    ELSE x

unknown_sender_logged(x, kind) ==
  log_activity(send_notification(x, kind), [note |-> kind, arg |-> ""])

\* the "if not lead" branch of handle_inbound_email and handle_inbound_sms
unknown_sender(x, kind) == send_notification(x, kind)

\* handle_inbound_email up to the analyze_message call: the sender is looked
\* up; an unknown sender is reported and the handler returns
EmailReceive(sender) ==
  /\ op = OpNone
  /\ ~call.busy
  /\ \E lookupOk \in BOOLEAN :
       LET lead == find_lead(store, sender, lookupOk) IN
       IF lead = NoLead
         THEN /\ op' = Done("email", NoLead, Absent,
                            unknown_sender(Ctx(Absent), "email_from_unknown_lead"),
                            [Flags EXCEPT !.resolved = FALSE,
                                          !.status = "escalated_unknown_lead"])
              /\ UNCHANGED call
         ELSE /\ call' = [busy |-> TRUE, channel |-> "email", lead |-> lead,
                          agent_state |-> store[lead].agent_state]
              /\ UNCHANGED op
  /\ quiet' = "no"
  /\ UNCHANGED <<store, bookings, now, sweep, probe, activity, upsert>>

\* handle_inbound_email from the return of analyze_message on; lead_data is
\* the dict read before the call
EmailReturn ==
  /\ op = OpNone
  /\ call.busy /\ call.channel = "email"
  /\ \E analyzerOk \in BOOLEAN :
     \E analysis \in IF analyzerOk THEN Analyses ELSE {NoAnalysis} :
     \E stateOk \in Outcome(analyzerOk /\ call.agent_state = "NURTURING") :
     \E sendOk \in Outcome(analyzerOk /\ stateOk) :
     \E closeOk \in Outcome(analyzerOk /\ stateOk /\ ~analysis.should_escalate
                            /\ analysis.next_action = "end_conversation") :
       LET lead == call.lead
           lead_data == [agent_state |-> call.agent_state]
           in == [sendOk |-> sendOk, closeOk |-> closeOk]
           x0 == Ctx(store[lead])
           x1 == log_activity(x0, [note |-> "inbound_email_reply", arg |-> ""])
           x2 == engage(x1, lead_data, stateOk)
           r == IF ~analyzerOk THEN [x |-> raise(x0), status |-> "error"]
                ELSE IF x2.raised THEN [x |-> x2, status |-> "error"]
                ELSE handle_based_on_analysis(x2, analysis, in)
       IN /\ store' = [store EXCEPT ![lead] = r.x.st]
          /\ op' = Done("email", lead, store[lead], r.x,
                        [Flags EXCEPT !.analyzer = TRUE, !.analysis = analysis,
                                      !.cached = (call.agent_state = "NURTURING"),
                                      !.status = IF r.x.raised THEN "error" ELSE r.status])
  /\ call' = NoCall
  /\ quiet' = "no"
  /\ UNCHANGED <<bookings, now, sweep, probe, activity, upsert>>

handle_sms_analysis_advancing(x, analysis) ==
  IF analysis.should_escalate
    THEN [x |-> send_notification(x, "sms_escalation"), text |-> "holding"]
  ELSE IF analysis.next_action = "book_call"
    THEN [x |-> update_email_tracking(x, x.st.email_sequence_step + 1, 0, TRUE),
          text |-> "booking_link"]
  ELSE IF analysis.next_action = "send_response" THEN [x |-> x, text |-> "ai_response"]
  ELSE [x |-> x, text |-> "default"]

\* SMSHandler._handle_sms_analysis: the text it returns is named by its kind
handle_sms_analysis(x, analysis) ==
  IF analysis.should_escalate
    THEN [x |-> send_notification(x, "sms_escalation"), text |-> "holding"]
  ELSE IF analysis.next_action = "book_call" THEN [x |-> x, text |-> "booking_link"]
  ELSE IF analysis.next_action = "send_response" THEN [x |-> x, text |-> "ai_response"]
  ELSE [x |-> x, text |-> "default"]

\* handle_inbound_sms up to the analyze_message call
SmsReceive(sender) ==
  /\ op = OpNone
  /\ ~call.busy
  /\ \E lookupOk \in BOOLEAN :
       LET lead == find_lead(store, sender, lookupOk) IN
       IF lead = NoLead
         THEN /\ op' = Done("sms", NoLead, Absent,
                            unknown_sender(Ctx(Absent), "sms_from_unknown_number"),
                            [Flags EXCEPT !.resolved = FALSE,
                                          !.status = "twiml_not_in_system"])
              /\ UNCHANGED call
         ELSE /\ call' = [busy |-> TRUE, channel |-> "sms", lead |-> lead,
                          agent_state |-> store[lead].agent_state]
              /\ UNCHANGED op
  /\ quiet' = "no"
  /\ UNCHANGED <<store, bookings, now, sweep, probe, activity, upsert>>

\* handle_inbound_sms from the return of analyze_message on
SmsReturn ==
  /\ op = OpNone
  /\ call.busy /\ call.channel = "sms"
  /\ \E analyzerOk \in BOOLEAN :
     \E analysis \in IF analyzerOk THEN Analyses ELSE {NoAnalysis} :
     \E stateOk \in Outcome(analyzerOk /\ call.agent_state = "NURTURING") :
     \E sendOk \in Outcome(analyzerOk /\ stateOk) :
       LET lead == call.lead
           lead_data == [agent_state |-> call.agent_state]
           x0 == Ctx(store[lead])
           x1 == log_activity(x0, [note |-> "inbound_sms", arg |-> ""])
           x2 == engage(x1, lead_data, stateOk)
           r == handle_sms_analysis(x2, analysis)
           x3 == send_sms(r.x, r.text, sendOk)
           x4 == log_activity(x3, [note |-> "outbound_sms", arg |-> r.text])
           x5 == send_notification(x4, "sms_conversation")
           x == IF ~analyzerOk THEN raise(x0) ELSE IF x2.raised THEN x2 ELSE x5
       IN /\ store' = [store EXCEPT ![lead] = x.st]
          /\ op' = Done("sms", lead, store[lead], x,
                        [Flags EXCEPT !.analyzer = TRUE, !.analysis = analysis,
                                      !.cached = (call.agent_state = "NURTURING"),
                                      !.status = IF x.raised THEN "error" ELSE r.text])
  /\ call' = NoCall
  /\ quiet' = "no"
  /\ UNCHANGED <<bookings, now, sweep, probe, activity, upsert>>

\* ------------------------------------------------------------- voice calls
\* a transcript is the set of the phrases it contains, among those
\* _analyze_call_outcome looks for
Transcripts == {{}, {"book"}, {"no thanks"}, {"calendar", "not interested"}}

analyze_call_outcome_both(transcript) ==
  [intent |-> IF "calendar" \in transcript \/ "book" \in transcript
                THEN "booking_interested"
              ELSE IF "not interested" \in transcript \/ "no thanks" \in transcript
                THEN "not_interested"
              ELSE "needs_follow_up",
   booked_call |-> ("calendar" \in transcript \/ "book" \in transcript),
   not_interested |-> ("not interested" \in transcript \/ "no thanks" \in transcript)]

analyze_call_outcome_crossed(transcript) ==
  IF "calendar" \in transcript \/ "book" \in transcript
    THEN [intent |-> "booking_interested", booked_call |-> FALSE, not_interested |-> TRUE]
  ELSE IF "not interested" \in transcript \/ "no thanks" \in transcript
    THEN [intent |-> "not_interested", booked_call |-> TRUE, not_interested |-> FALSE]
  ELSE [intent |-> "needs_follow_up", booked_call |-> FALSE, not_interested |-> FALSE]

\* VAPIHandler._analyze_call_outcome
analyze_call_outcome(transcript) ==
  IF "calendar" \in transcript \/ "book" \in transcript
    THEN [intent |-> "booking_interested", booked_call |-> TRUE, not_interested |-> FALSE]
  ELSE IF "not interested" \in transcript \/ "no thanks" \in transcript
    THEN [intent |-> "not_interested", booked_call |-> FALSE, not_interested |-> TRUE]
  ELSE [intent |-> "needs_follow_up", booked_call |-> FALSE, not_interested |-> FALSE]

\* VAPIHandler.handle_call_ended; sender NoLead is a payload without a customer
\* number or with a number no lead has
CallEnded(sender) ==
  /\ op = OpNone
  /\ \E lookupOk \in BOOLEAN, transcript \in Transcripts :
    LET lead == find_lead(store, sender, lookupOk)
        outcome == analyze_call_outcome(transcript)
    IN
    /\ IF lead = NoLead
         THEN /\ op' = Done("call_ended", NoLead, Absent, Ctx(Absent),
                            [Flags EXCEPT !.resolved = FALSE, !.status = "no_lead_found"])
              /\ UNCHANGED store
         ELSE \E stateOk \in Outcome(outcome.booked_call \/ outcome.not_interested) :
                LET x1 == log_activity(Ctx(store[lead]),
                                       [note |-> "ai_call_completed", arg |-> outcome.intent])
                    x2 == IF outcome.booked_call
                            THEN update_lead_state(x1, "CALL_BOOKED", stateOk)
                          ELSE IF outcome.not_interested
                            THEN update_lead_state(x1, "CLOSED_LOST", stateOk)
                          ELSE x1
                    x == send_notification(x2, "ai_call_completed")
                IN /\ store' = [store EXCEPT ![lead] = x.st]
                   /\ op' = Done("call_ended", lead, store[lead], x,
                                 [Flags EXCEPT !.status = IF x.raised THEN "error"
                                                          ELSE outcome.intent])
    /\ quiet' = "no"
    /\ UNCHANGED <<bookings, now, call, sweep, probe, activity, upsert>>

\* -------------------------------------------------------- operator commands
\* what an operator may type after "update lead <email> state"
OperatorValues == {"nurturing", "closed_lost", "qualified"}

\* str.upper()
upper(value) ==
  CASE value = "nurturing" -> "NURTURING"
    [] value = "closed_lost" -> "CLOSED_LOST"
    [] OTHER -> "QUALIFIED"

\* SlackBot._update_lead_command with field "state"; every exception is caught
\* and answered with an error text
UpdateLeadCommand(target) ==
  /\ op = OpNone
  /\ \E lookupOk \in BOOLEAN, value \in OperatorValues :
    LET lead == find_lead(store, target, lookupOk) IN
    /\ IF lead = NoLead
         THEN /\ op' = Done("update_lead", NoLead, Absent, Ctx(Absent),
                            [Flags EXCEPT !.resolved = FALSE, !.status = "no_lead_found"])
              /\ UNCHANGED store
         ELSE \E putOk \in BOOLEAN :
                LET x == update_lead_state(Ctx(store[lead]), upper(value), putOk)
                IN /\ store' = [store EXCEPT ![lead] = x.st]
                   /\ op' = Done("update_lead", lead, store[lead], x,
                                 [Flags EXCEPT !.status = IF x.raised THEN "error"
                                                          ELSE "updated"])
    /\ quiet' = "no"
    /\ UNCHANGED <<bookings, now, call, sweep, probe, activity, upsert>>

\* the step hands its result back: to the webhook caller, to the operator, or
\* to the loop of run_scheduled_tasks
Return ==
  /\ op # OpNone
  /\ op' = OpNone
  /\ UNCHANGED <<store, bookings, now, call, sweep, quiet, probe, activity, upsert>>

\* ------------------------------------------------------------ the system
Init ==
  /\ store \in [Leads -> {Absent} \cup NurturingLeads]
  /\ bookings = {}
  /\ now = StartDay
  /\ call = NoCall
  /\ sweep = SweepIdle
  /\ quiet = "no"
  /\ op = OpNone
  /\ probe = [pc |-> "idle", step |-> 0, last |-> EmptyStr, utcnow |-> 0, ready |-> FALSE]
  /\ activity = [l \in Leads |-> <<>>]
  /\ upsert = NoUpsert

Next ==
  \/ \E l \in Leads : Submit(l)
  \/ \E l \in Leads : Book(l)
  \/ Tick
  \/ SweepStart
  \/ SweepLead
  \/ SweepFinish
  \/ \E s \in Senders : EmailReceive(s)
  \/ EmailReturn
  \/ \E s \in Senders : SmsReceive(s)
  \/ SmsReturn
  \/ \E s \in Senders : CallEnded(s)
  \/ \E s \in Senders : UpdateLeadCommand(s)
  \/ Return

Spec == Init /\ [][Next]_vars

\* ------------------------------------------- persistence of activity notes
\* a lead is worked on while Close holds fewer than MaxNotes notes for it
MaxNotes == 2

\* CloseClient._log_activity at the store: the POST of each note is answered
\* 200, and the note is kept, or anything else, and it is not; accepted[i]
\* tells which for the i-th note a handler posted
post_activities(stored, notes, accepted) ==
  LET kept[i \in 0..Len(notes)] ==
        IF i = 0 THEN stored
        ELSE IF accepted[i] THEN Append(kept[i - 1], notes[i]) ELSE kept[i - 1]
  IN kept[Len(notes)]

\* a lead that is in NURTURING got there by update_lead_state, whose note
\* Close holds
InitStore ==
  /\ store \in [Leads -> {Absent} \cup NurturingLeads]
  /\ activity = [l \in Leads |->
                   IF store[l].exists
                     THEN <<[note |-> "state_changed", arg |-> "NURTURING"]>>
                     ELSE <<>>]
  /\ upsert = NoUpsert
  /\ bookings = {}
  /\ now = StartDay
  /\ call = NoCall
  /\ sweep = SweepIdle
  /\ quiet = "no"
  /\ op = OpNone
  /\ probe = [pc |-> "idle", step |-> 0, last |-> EmptyStr, utcnow |-> 0, ready |-> FALSE]

\* process_typeform_submission with the fate of each note it posts
StoreSubmit(l) ==
  /\ Len(activity[l]) < MaxNotes
  /\ \E upsertOk \in BOOLEAN :
     \E calOk \in Outcome(upsertOk) :
     \E markOk \in Outcome(upsertOk /\ calOk /\ l \in bookings) :
     \E stateOk \in Outcome(upsertOk /\ calOk) :
     \E sendOk \in Outcome(upsertOk /\ calOk /\ stateOk) :
     \E trackOk \in Outcome(upsertOk /\ calOk /\ stateOk /\ sendOk) :
       LET in == [upsertOk |-> upsertOk, markOk |-> markOk,
                  stateOk |-> stateOk, sendOk |-> sendOk, trackOk |-> trackOk,
                  slack |-> "ok"]
           bk == check_booking(l, bookings, calOk)
           x == process_typeform_submission(Ctx(store[l]), bk, now, in)
       IN \E accepted \in [1..Len(x.logs) -> BOOLEAN] :
            /\ store' = [store EXCEPT ![l] = x.st]
            /\ activity' = [activity EXCEPT ![l] = post_activities(@, x.logs, accepted)]
            /\ UNCHANGED <<bookings, now, call, sweep, quiet, op, probe, upsert>>

\* run_scheduled_tasks: one iteration of the loop, on a lead of the list just
\* fetched, with the fate of each note it posts
StoreSweep ==
  \E i \in DOMAIN get_nurturing_leads(store) :
    LET lead == get_nurturing_leads(store)[i] IN
    /\ Len(activity[lead.id]) < MaxNotes
    /\ \E calOk \in BOOLEAN :
       \E markOk \in Outcome(calOk /\ lead.id \in bookings) :
       \E stateOk \in Outcome(calOk) :
       \E reportOk \in Outcome(calOk /\ lead.id \notin bookings
                                 /\ lead.email_sequence_step + 1 \in {3, 5, 7}) :
       \E sendOk \in Outcome(calOk /\ stateOk /\ reportOk) :
       \E trackOk \in Outcome(calOk /\ stateOk /\ sendOk) :
         LET in == [markOk |-> markOk, stateOk |-> stateOk,
                    sendOk |-> sendOk, trackOk |-> trackOk, reportOk |-> reportOk]
             bk == check_booking(lead.id, bookings, calOk)
             r == process_nurturing_lead(Ctx(store[lead.id]), lead, bk, now, in)
         IN \E accepted \in [1..Len(r.x.logs) -> BOOLEAN] :
              /\ store' = [store EXCEPT ![lead.id] = r.x.st]
              /\ activity' = [activity EXCEPT
                                ![lead.id] = post_activities(@, r.x.logs, accepted)]
              /\ UNCHANGED <<bookings, now, call, sweep, quiet, op, probe, upsert>>

NextStore ==
  \/ \E l \in Leads : StoreSubmit(l)
  \/ StoreSweep
  \/ \E l \in Leads : Book(l)
  \/ Tick

SpecStore == InitStore /\ [][NextStore]_vars

\* ------------------------------------------------------------ properties
\* C1: every write of a lead's agent_state, by any operation, changes the state
\* along an edge of the transition table (the table of the lifecycle and the
\* arrows of its state diagram).
WritesFollowEdges ==
  LET Edges ==
        {<<"NEW", "NURTURING">>, <<"NEW", "BOOKED">>,
         <<"NURTURING", "BOOKED">>, <<"NURTURING", "ENGAGED">>,
         <<"NURTURING", "SEQUENCE_COMPLETE">>, <<"NURTURING", "CALLING">>,
         <<"ENGAGED", "CLOSED_LOST">>, <<"ENGAGED", "CALLING">>,
         <<"ENGAGED", "BOOKED">>,
         <<"SEQUENCE_COMPLETE", "BOOKED">>, <<"SEQUENCE_COMPLETE", "CALLING">>,
         <<"SEQUENCE_COMPLETE", "CLOSED_LOST">>,
         <<"CALLING", "CALL_BOOKED">>, <<"CALLING", "CLOSED_LOST">>,
         <<"CALLING", "NURTURING">>}
  IN \A i \in 1..Len(op.writes) :
       \/ op.writes[i].from = op.writes[i].to
       \/ <<op.writes[i].from, op.writes[i].to>> \in Edges

\* C2: an inbound email or SMS handler writes ENGAGED only over a stored
\* NURTURING, whatever happened to the lead while the Analyzer call was in flight.
EngagedOnlyOverNurturing ==
  op.name \in {"email", "sms"}
    => \A i \in 1..Len(op.writes) :
         op.writes[i].to = "ENGAGED" => op.writes[i].from = "NURTURING"

\* C3: a sweep pass over a lead sends it an email or changes its stored fields
\* only if the store holds NURTURING for the lead when the pass acts.
SweepActsOnlyOnNurturing ==
  (op.name = "sweep_lead" /\ op.pre # "NURTURING")
    => (op.emails = <<>> /\ ~op.changed)

\* C4: a sweep started right after a sweep returned, with no day passed and no
\* reply, booking or other event since that earlier sweep started, sends
\* nothing and changes no stored field.
RerunDoesNothing ==
  (op.name = "sweep_lead" /\ op.rerun)
    => (op.emails = <<>> /\ ~op.changed)

EscalationWins ==
  (op.name \in {"email", "sms"} /\ op.analyzer /\ op.analysis.should_escalate)
    => /\ \A i \in 1..Len(op.emails) : op.emails[i].kind = "holding"
       /\ \A i \in 1..Len(op.sms) : op.sms[i].kind = "holding"
       /\ \A i \in 1..Len(op.writes) : op.writes[i].to # "CLOSED_LOST"
       /\ ~op.raised => /\ op.status \in {"escalated", "holding"}
                        /\ Len(op.emails) + Len(op.sms) = 1
EscalatedBookingRequest ==
  /\ op.name = "email" /\ op.analyzer /\ op.analysis.should_escalate
  /\ op.analysis.next_action = "book_call" /\ op.status = "escalated"

\* C10: an inbound email, SMS or call-ended event whose sender resolves to no
\* lead writes nothing to the store, appends no activity and does not invoke
\* the Analyzer.
UnresolvedSenderWritesNothing ==
  [][(op = OpNone /\ op'.name \in {"email", "sms", "call_ended"} /\ ~op'.resolved)
       => /\ store' = store
          /\ op'.writes = <<>> /\ op'.logs = <<>>
          /\ ~op'.analyzer]_vars
UnknownNumberReported ==
  /\ op.name = "sms" /\ ~op.resolved
  /\ op.notifs = <<"sms_from_unknown_number">>
  /\ \E l \in Leads : store[l].exists

EngagedBeforeDispatch ==
  (op.name \in {"email", "sms"} /\ op.analyzer /\ op.analysis # NoAnalysis)
    => IF op.cached
         THEN \/ /\ op.writes # <<>>
                 /\ op.writes[1].to = "ENGAGED"
                 /\ Len(op.logs) >= 2
                 /\ op.logs[2] = [note |-> "state_changed", arg |-> "ENGAGED"]
              \/ /\ op.raised
                 /\ op.writes = <<>> /\ op.emails = <<>> /\ op.sms = <<>>
                 /\ op.notifs = <<>>
         ELSE \A i \in 1..Len(op.writes) : op.writes[i].to # "ENGAGED"
EngagedThenClosed ==
  /\ op.name = "email" /\ op.cached
  /\ op.analysis = [should_escalate |-> FALSE, next_action |-> "end_conversation"]
  /\ Len(op.writes) = 2
  /\ op.writes[1].to = "ENGAGED" /\ op.writes[2].to = "CLOSED_LOST"

RouterKeepsCursor ==
  [][(op = OpNone /\ op'.name \in {"email", "sms"})
       => \A l \in Leads :
            /\ store'[l].email_sequence_step = store[l].email_sequence_step
            /\ store'[l].last_email_sent = store[l].last_email_sent]_vars
BookingLinkTexted ==
  /\ op.name = "sms" /\ op.status = "booking_link"
  /\ op.sms = <<[kind |-> "booking_link", ok |-> TRUE]>>
  /\ store[op.lead].email_sequence_step = 2

\* C16: in every store content a lead's agent_state is the target of the latest
\* "state changed" note Close holds for it (NEW when there is none), its booked
\* flag is true exactly when a "booking detected" note is held, and a lead with
\* a "booking detected" note is in BOOKED: no transition is applied without its
\* activity record and no record is kept without its transition.
ActivityMatchesState ==
  \A l \in Leads :
    store[l].exists =>
      LET changes == SelectSeq(activity[l], LAMBDA n : n.note = "state_changed")
          detected == \E i \in DOMAIN activity[l] :
                        activity[l][i].note = "booking_detected"
      IN /\ store[l].agent_state =
              IF changes = <<>> THEN "NEW" ELSE changes[Len(changes)].arg
         /\ store[l].booked <=> detected
         /\ detected => store[l].agent_state = "BOOKED"

\* C17: when the reply send of an inbound handler fails, the log of the
\* inbound message is kept, the handler's result is an error, and no activity
\* entry says the message was sent.
FailedReplyReported ==
  (op.name \in {"email", "sms"}
     /\ \/ \E i \in 1..Len(op.emails) : ~op.emails[i].ok
        \/ \E i \in 1..Len(op.sms) : ~op.sms[i].ok)
    => /\ op.logs # <<>>
       /\ op.logs[1].note \in {"inbound_email_reply", "inbound_sms"}
       /\ op.status = "error"
       /\ \A i \in 1..Len(op.logs) :
            op.logs[i].note \notin {"sent_booking_link", "ai_response_sent",
                                    "outbound_sms"}

\* C18: a lead's booked flag, once true, is true after every later step.
BookedStaysBooked ==
  [][\A l \in Leads : store[l].booked => store'[l].booked]_vars
BookedLeadResubmitted ==
  /\ op.name = "submit" /\ ~op.raised
  /\ op.logs # <<>> /\ op.logs[1].note = "lead_updated"
  /\ \A i \in 1..Len(op.logs) : op.logs[i].note # "booking_detected"
  /\ store[op.lead].booked

\* C19: while a lead stays in NURTURING its email_sequence_step never
\* decreases.
CursorNeverDecreasesInNurturing ==
  [][\A l \in Leads :
       (store[l].exists /\ store[l].agent_state = "NURTURING"
          /\ store'[l].agent_state = "NURTURING")
         => store'[l].email_sequence_step >= store[l].email_sequence_step]_vars

\* C20: a form submission or a sweep pass for a lead stored as BOOKED,
\* CLOSED_LOST or SEQUENCE_COMPLETE sends it no nurture email and does not
\* advance its email_sequence_step.
TerminalLeadsGetNoNurture ==
  [][(op = OpNone /\ op'.name \in {"submit", "sweep_lead"} /\ op'.lead \in Leads)
       => LET l == op'.lead IN
          (store[l].exists
             /\ store[l].agent_state \in {"BOOKED", "CLOSED_LOST", "SEQUENCE_COMPLETE"})
            => /\ \A i \in 1..Len(op'.emails) : op'.emails[i].kind # "nurture"
               /\ store'[l].email_sequence_step <= store[l].email_sequence_step]_vars

\* C21: every step of a sweep takes one lead off its list; when a call made for
\* that lead failed (store, booking check, sender or report) the failure is
\* reported by an error notification and the lead is not counted in
\* leads_processed; otherwise the lead is counted once.
SweepCountsOnlySuccesses ==
  [][(op = OpNone /\ op'.name = "sweep_lead")
       => LET failed == \/ op'.raised
                        \/ \E i \in 1..Len(op'.emails) : ~op'.emails[i].ok
          IN /\ sweep.todo # <<>> /\ sweep'.todo = Tail(sweep.todo)
             /\ sweep'.pc = "run"
             /\ IF failed
                  THEN /\ sweep'.results.leads_processed = sweep.results.leads_processed
                       /\ \E i \in 1..Len(op'.notifs) :
                            op'.notifs[i] = "error_processing_lead"
                  ELSE sweep'.results.leads_processed
                         = sweep.results.leads_processed + 1]_vars

\* C22: when analyze_message gives the inbound email or SMS handler no
\* classification (the Analyzer call fails, or its answer lacks the fields the
\* handler reads), the handler does not fail: it completes on the escalation
\* path, with an escalation notification.
AnalyzerFailureEscalated ==
  (op.name \in {"email", "sms"} /\ op.analyzer /\ op.analysis = NoAnalysis)
    => /\ ~op.raised
       /\ op.status # "error"
       /\ \E i \in 1..Len(op.notifs) :
            op.notifs[i] \in {"escalation_needed", "sms_escalation"}

\* ------------------------------------------- the cadence function in isolation
ProbeStrings == {EmptyStr, MalformedStr} \cup {isoformat(t) : t \in 0..MaxLast}
InitCadence ==
  /\ store = [l \in Leads |-> Absent]
  /\ bookings = {}
  /\ now = StartDay
  /\ call = NoCall
  /\ sweep = SweepIdle
  /\ quiet = "no"
  /\ op = OpNone
  /\ probe \in [pc : {"call"}, step : 1..MaxProbeStep, last : ProbeStrings,
                utcnow : 0..(MaxLast + schedule[8] + 1), ready : {FALSE}]
  /\ activity = [l \in Leads |-> <<>>]
  /\ upsert = NoUpsert

CadenceEval ==
  /\ probe.pc = "call"
  /\ probe' = [probe EXCEPT !.pc = "done",
                 !.ready = should_send_email(probe.last, probe.step, probe.utcnow)]
  /\ UNCHANGED <<store, bookings, now, call, sweep, quiet, op, activity, upsert>>

NextCadence == CadenceEval

SpecCadence == InitCadence /\ [][NextCadence]_vars

NeverReadyAboveEight ==
  (probe.pc = "done" /\ probe.step > 8) => ~probe.ready

\* C7: with no prior send recorded, step 1 is ready and no other step is.
FirstStepOnlyWithoutPriorSend ==
  (probe.pc = "done" /\ probe.last.kind = "empty")
    => (probe.ready <=> probe.step = 1)
FirstStepReadyWithoutPriorSend ==
  probe.pc = "done" /\ probe.last.kind = "empty" /\ probe.step = 1 /\ probe.ready

\* C28: when process_typeform_submission returns success for a lead it created,
\* then with no booking found the lead is in NURTURING, the step-1 nurture
\* email has been sent and email_sequence_step is 1, and with a booking found
\* the lead is in BOOKED; in neither case is it in NEW.
NewLeadEntersNurture ==
  (op.name = "submit" /\ ~op.raised /\ op.status = "success"
     /\ op.logs # <<>> /\ op.logs[1].note = "lead_created")
    => LET rec == store[op.lead] IN
       /\ rec.exists /\ rec.agent_state # "NEW"
       /\ op.bk = "found" => rec.agent_state = "BOOKED"
       /\ op.bk = "none"
            => /\ rec.agent_state = "NURTURING"
               /\ op.emails = <<[kind |-> "nurture", step |-> 1, ok |-> TRUE]>>
               /\ rec.email_sequence_step = 1

\* C29: a sweep pass that finds a booking for a lead stored as NURTURING and
\* ends without an error leaves the lead in BOOKED with its booked flag set,
\* invokes the asset-pack send, leaves email_sequence_step unchanged and sends
\* the lead no nurture email.
SweepBookingConverts ==
  [][(op = OpNone /\ op'.name = "sweep_lead" /\ op'.bk = "found" /\ ~op'.raised
        /\ store[op'.lead].agent_state = "NURTURING")
       => LET l == op'.lead IN
          /\ store'[l].agent_state = "BOOKED"
          /\ store'[l].booked
          /\ \E i \in 1..Len(op'.emails) : op'.emails[i].kind = "asset_pack"
          /\ \A i \in 1..Len(op'.emails) : op'.emails[i].kind # "nurture"
          /\ store'[l].email_sequence_step = store[l].email_sequence_step]_vars

\* ---------------------------------------------------------- proactive calls
\* _get_leads_for_calling, as the query its comment describes ("query Close for
\* leads meeting call criteria"): leads the store holds; which of them meet the
\* criteria depends on fields outside this model and is an input (eligible).
\* The body in agent_v2.py is a placeholder that returns [].
get_leads_for_calling(st, eligible) ==
  SelectSeq([l \in 1..NumLeads |-> l], LAMBDA l : st[l].exists /\ l \in eligible)

\* what the POST /call/phone of make_outbound_call can do
CallOutcomes == {"created", "refused", "raised"}

\* VAPIHandler.make_outbound_call
make_outbound_call(x, phone, post) ==
  IF ~phone THEN [x |-> x, status |-> "error"]
  ELSE IF post = "created"
    THEN [x |-> send_notification(
                  log_activity(x, [note |-> "ai_voice_call_initiated", arg |-> ""]),
                  "ai_call_started"),
          status |-> "success"]
  ELSE IF post = "refused"
    THEN [x |-> send_notification(x, "vapi_call_failed"), status |-> "error"]
  ELSE [x |-> x, status |-> "error"]

\* make_proactive_calls: one iteration of the loop with its try / except;
\* calls_made and errors are what the iteration adds to the results
proactive_call(x, phone, post, putOk) ==
  LET result == make_outbound_call(x, phone, post) IN
  IF result.status = "success"
    THEN LET x1 == update_lead_state(result.x, "CALLING", putOk)
         IN [x |-> x1, calls_made |-> 1, errors |-> IF x1.raised THEN 1 ELSE 0]
    ELSE [x |-> result.x, calls_made |-> 0, errors |-> 1]

ProactiveCall(l) ==
  /\ op = OpNone
  /\ \E eligible \in SUBSET Leads :
       \E i \in DOMAIN get_leads_for_calling(store, eligible) :
         get_leads_for_calling(store, eligible)[i] = l
  /\ \E phone \in BOOLEAN :
     \E post \in IF phone THEN CallOutcomes ELSE {"raised"} :
     \E putOk \in Outcome(phone /\ post = "created") :
       LET r == proactive_call(Ctx(store[l]), phone, post, putOk) IN
       /\ store' = [store EXCEPT ![l] = r.x.st]
       /\ op' = Done("proactive_call", l, store[l], r.x,
                     [Flags EXCEPT !.status =
                        IF r.calls_made = 0 THEN "error"
                        ELSE IF r.errors = 0 THEN "call_made"
                        ELSE "call_made_and_error"])
  /\ quiet' = "no"
  /\ UNCHANGED <<bookings, now, call, sweep, probe, activity, upsert>>

NextCalls ==
  \/ \E l \in Leads : ProactiveCall(l)
  \/ \E s \in Senders : CallEnded(s)
  \/ Return

SpecCalls == Init /\ [][NextCalls]_vars

\* C24: in a proactive-call run a lead's state is written to CALLING, with the
\* call id in the state-change note, exactly when the call request for the lead
\* returned success; when the request failed the lead's stored fields are
\* unchanged.
CallingIffCallPlaced ==
  op.name = "proactive_call"
    => LET placed == op.status \in {"call_made", "call_made_and_error"}
           written == /\ \E i \in 1..Len(op.writes) : op.writes[i].to = "CALLING"
                      /\ store[op.lead].agent_state = "CALLING"
                      /\ \E i \in 1..Len(op.logs) :
                           op.logs[i] = [note |-> "state_changed", arg |-> "CALLING"]
       IN /\ placed <=> written
          /\ ~placed => ~op.changed

\* C25: a call-ended event processed for a lead in CALLING leaves the lead out
\* of CALLING; when the outcome is inconclusive (needs follow-up) the lead is in
\* NURTURING afterwards with its email_sequence_step unchanged.
InconclusiveCallResumesNurture ==
  [][(op = OpNone /\ op'.name = "call_ended" /\ op'.resolved /\ ~op'.raised
        /\ store[op'.lead].agent_state = "CALLING")
       => LET l == op'.lead IN
          /\ store'[l].agent_state # "CALLING"
          /\ op'.status = "needs_follow_up"
               => /\ store'[l].agent_state = "NURTURING"
                  /\ store'[l].email_sequence_step = store[l].email_sequence_step]_vars

MaxHistory == 6

\* the words should_make_call looks for in a message
CallKeywords == {"demo", "pricing", "price", "cost", "how much"}

\* a message text is the set of the keywords it contains
MessageTexts == {{}, {"pricing"}}

\* conversation_history[-5:]
last_five(history) ==
  IF Len(history) <= 5 THEN history
  ELSE SubSeq(history, Len(history) - 4, Len(history))

\* ConversationIntelligence.should_make_call
should_make_call(lead_context, conversation_history) ==
  LET email_count == lead_context.email_sequence_step
      recent == last_five(conversation_history)
  IN
  IF lead_context.leadType = "wholesale" /\ lead_context.priority = "high"
       /\ email_count >= 2
    THEN TRUE
  ELSE IF email_count >= 4 /\ lead_context.booked # "yes"
    THEN TRUE
  ELSE \E i \in 1..Len(recent) : recent[i] \cap CallKeywords # {}

InitCallPolicy ==
  /\ store = [l \in Leads |-> Absent]
  /\ bookings = {}
  /\ now = StartDay
  /\ call = NoCall
  /\ sweep = SweepIdle
  /\ quiet = "no"
  /\ op = OpNone
  /\ activity = [l \in Leads |-> <<>>]
  /\ upsert = NoUpsert
  /\ \E n \in 0..MaxHistory :
       probe \in [pc : {"call"},
                  lead_context : [leadType : {"wholesale", "hume_connect"},
                                  priority : {"high", "medium"},
                                  email_sequence_step : 0..4,
                                  booked : {"yes", ""}],
                  history : [1..n -> MessageTexts],
                  result : {FALSE}]

CallPolicyEval ==
  /\ probe.pc = "call"
  /\ probe' = [probe EXCEPT !.pc = "done",
                 !.result = should_make_call(probe.lead_context, probe.history)]
  /\ UNCHANGED <<store, bookings, now, call, sweep, quiet, op, activity, upsert>>

NextCallPolicy == CallPolicyEval

SpecCallPolicy == InitCallPolicy /\ [][NextCallPolicy]_vars

\* C23: should_make_call answers true exactly when the lead has no booking and
\* one of these holds: it is a wholesale lead of high priority with cursor >= 2,
\* its cursor is >= 4, or one of the last 5 exchanges of the history contains a
\* pricing or demo keyword; a lead whose booked flag is set is never eligible.
CallOnlyWithoutBooking ==
  probe.pc = "done"
    => LET c == probe.lead_context
           h == probe.history
           keyword == \E i \in 1..Len(h) :
                        i > Len(h) - 5 /\ h[i] \cap CallKeywords # {}
       IN probe.result <=>
            /\ c.booked # "yes"
            /\ \/ c.leadType = "wholesale" /\ c.priority = "high"
                    /\ c.email_sequence_step >= 2
               \/ c.email_sequence_step >= 4
               \/ keyword

\* ------------------------------------- the call-outcome classifier in isolation
\* the longest transcript tried, in words
MaxWords == 3

\* what a call transcript is made of
Words == {"hello", "Calendar", "rebooked", "No thanks", "not interested"}

\* the phrases _analyze_call_outcome looks for that are substrings of
\* word.lower()
phrases_in(word) ==
  CASE word = "Calendar" -> {"calendar"}
    [] word = "rebooked" -> {"book"}
    [] word = "No thanks" -> {"no thanks"}
    [] word = "not interested" -> {"not interested"}
    [] OTHER -> {}

\* the phrases that are substrings of transcript.lower()
phrases_of(transcript) ==
  UNION {phrases_in(transcript[i]) : i \in 1..Len(transcript)}

InitOutcome ==
  /\ store = [l \in Leads |-> Absent]
  /\ bookings = {}
  /\ now = StartDay
  /\ call = NoCall
  /\ sweep = SweepIdle
  /\ quiet = "no"
  /\ op = OpNone
  /\ activity = [l \in Leads |-> <<>>]
  /\ upsert = NoUpsert
  /\ \E n \in 0..MaxWords :
       probe \in [pc : {"call"}, transcript : [1..n -> Words],
                  outcome : {[intent |-> "", booked_call |-> FALSE,
                              not_interested |-> FALSE]}]

OutcomeEval ==
  /\ probe.pc = "call"
  /\ probe' = [probe EXCEPT !.pc = "done",
                 !.outcome = analyze_call_outcome(phrases_of(probe.transcript))]
  /\ UNCHANGED <<store, bookings, now, call, sweep, quiet, op, activity, upsert>>

NextOutcome == OutcomeEval

SpecOutcome == InitOutcome /\ [][NextOutcome]_vars

\* C27: for every transcript, the empty one included, _analyze_call_outcome
\* yields exactly one of booking_interested, not_interested, needs_follow_up,
\* with the booked_call flag set exactly for the first and the not_interested
\* flag exactly for the second: never both flags.
OutcomeIsOneOfThree ==
  probe.pc = "done"
    => LET o == probe.outcome IN
       /\ o.intent \in {"booking_interested", "not_interested", "needs_follow_up"}
       /\ o.booked_call <=> o.intent = "booking_interested"
       /\ o.not_interested <=> o.intent = "not_interested"
       /\ ~(o.booked_call /\ o.not_interested)
BookedWinsOverNotInterested ==
  /\ probe.pc = "done"
  /\ probe.transcript = <<"not interested", "rebooked">>
  /\ probe.outcome = [intent |-> "booking_interested", booked_call |-> TRUE,
                      not_interested |-> FALSE]

\* ------------------------------------------------- upsert_lead in isolation
\* the most lead records tried for one external id
MaxRecords == 3

\* CloseClient._find_lead_by_external_id: a record, unless the query is not
\* answered 200 or no record has the id
find_lead_by_external_id(count, getOk) == getOk /\ count > 0

\* Close holds no lead and no call is in progress
InitUpsert ==
  /\ store = [l \in Leads |-> Absent]
  /\ bookings = {}
  /\ now = StartDay
  /\ call = NoCall
  /\ sweep = SweepIdle
  /\ quiet = "no"
  /\ op = OpNone
  /\ probe = [pc |-> "idle", step |-> 0, last |-> EmptyStr, utcnow |-> 0, ready |-> FALSE]
  /\ activity = [l \in Leads |-> <<>>]
  /\ upsert = NoUpsert

\* CloseClient.upsert_lead up to the return of _find_lead_by_external_id, for
\* a submission with the external id of slot l
UpsertFind(w, l) ==
  /\ upsert.requests[w].pc = "idle"
  /\ upsert.records[l] < MaxRecords
  /\ \E getOk \in BOOLEAN :
       upsert' = [upsert EXCEPT !.requests[w] =
                    [pc |-> "found", lead |-> l,
                     existing_lead |-> find_lead_by_external_id(upsert.records[l], getOk),
                     status |-> ""]]
  /\ UNCHANGED <<store, bookings, now, call, sweep, quiet, op, probe, activity>>

\* CloseClient.upsert_lead from there on: _update_lead for an existing lead,
\* else _create_lead; both raise unless the request is answered 200
UpsertWrite(w) ==
  /\ upsert.requests[w].pc = "found"
  /\ \E ok \in BOOLEAN :
       LET r == upsert.requests[w] IN
       upsert' = [upsert EXCEPT
                    !.requests[w] = [r EXCEPT !.pc = "done",
                                      !.status = IF ~ok THEN "error"
                                                 ELSE IF r.existing_lead THEN "updated"
                                                 ELSE "created"],
                    !.records[r.lead] = IF ok /\ ~r.existing_lead THEN @ + 1 ELSE @]
  /\ UNCHANGED <<store, bookings, now, call, sweep, quiet, op, probe, activity>>

\* the caller has the lead, or the exception
UpsertReturn(w) ==
  /\ upsert.requests[w].pc = "done"
  /\ upsert' = [upsert EXCEPT !.requests[w] = NoRequest]
  /\ UNCHANGED <<store, bookings, now, call, sweep, quiet, op, probe, activity>>

NextUpsert ==
  \/ \E w \in Workers, l \in Leads : UpsertFind(w, l)
  \/ \E w \in Workers : UpsertWrite(w)
  \/ \E w \in Workers : UpsertReturn(w)

SpecUpsert == InitUpsert /\ [][NextUpsert]_vars

\* C30: whatever submissions with the same external id are processed, one after
\* the other or at once, with the lookup answered or not, Close holds at most
\* one lead record with that id.
OneRecordPerExternalId ==
  \A l \in Leads : upsert.records[l] <= 1

\* ------------------------------------------------------- further properties
\* C31: when an inbound email or SMS handler returns on the escalation path, a
\* holding reply has been sent on the same channel, an "escalated" activity
\* carrying the escalation reason has been logged for the lead, and the
\* operator channel has been notified of the escalation.
EscalationDoesAllThree ==
  (op.name \in {"email", "sms"} /\ op.analyzer /\ ~op.raised
     /\ op.analysis.should_escalate)
    => /\ IF op.name = "email"
            THEN \E i \in 1..Len(op.emails) : op.emails[i].kind = "holding"
            ELSE \E i \in 1..Len(op.sms) : op.sms[i].kind = "holding"
       /\ \E i \in 1..Len(op.logs) : op.logs[i].note = "escalated"
       /\ \E i \in 1..Len(op.notifs) :
            op.notifs[i] \in {"escalation_needed", "sms_escalation"}

\* ------------------------------------------------ what an activity note holds
\* The notes POSTed by CloseClient._log_activity, followed on their own: probe
\* is the sequence of notes written so far.  A value is "" (falsy in the
\* source), the lead's own "lead_email" or "lead_phone", or other text.

\* CloseClient._format_metadata: one line per item whose value is truthy and
\* whose key is neither "email" nor "phone"
format_metadata(metadata) ==
  SelectSeq(metadata,
            LAMBDA item : item.value # "" /\ item.key \notin {"email", "phone"})

\* CloseClient._log_activity: the note text, then the formatted metadata when
\* a non-empty metadata dictionary was passed
note_content(note, metadata) ==
  [note |-> note,
   lines |-> IF metadata = <<>> THEN <<>> ELSE format_metadata(metadata)]

\* the metadata dictionaries the callers of _log_activity pass, by call site
NoteMetadata(site) ==
  IF site \in {"lead_created", "lead_updated"}
    THEN { <<[key |-> "company", value |-> c],
             [key |-> "email", value |-> "lead_email"],
             [key |-> "name", value |-> n],
             [key |-> "phone", value |-> p]>> :
           c \in {"Unknown"}, n \in {"", "name"}, p \in {"", "lead_phone"} }
  ELSE IF site = "booking_detected"
    THEN { <<[key |-> "name", value |-> "event"],
             [key |-> "invitee_email", value |-> "lead_email"],
             [key |-> "invitee_name", value |-> "name"]>> }
  ELSE IF site = "inbound_sms"
    THEN { <<[key |-> "from", value |-> "lead_phone"],
             [key |-> "sentiment", value |-> s]>> :
           s \in {"positive", "neutral", "negative"} }
  ELSE IF site \in {"outbound_sms", "proactive_sms"}
    THEN { <<[key |-> "to", value |-> "lead_phone"]>> }
  ELSE IF site = "call_initiated"
    THEN { <<[key |-> "call_id", value |-> "call"],
             [key |-> "phone", value |-> "lead_phone"]>> }
  ELSE { <<>> }

NoteSites ==
  {"lead_created", "lead_updated", "booking_detected", "inbound_sms",
   "outbound_sms", "proactive_sms", "call_initiated", "email_sent"}

InitNotes ==
  /\ store = [l \in Leads |-> Absent]
  /\ bookings = {}
  /\ now = StartDay
  /\ call = NoCall
  /\ sweep = SweepIdle
  /\ quiet = "no"
  /\ op = OpNone
  /\ activity = [l \in Leads |-> <<>>]
  /\ upsert = NoUpsert
  /\ probe = <<>>

LogNote ==
  /\ Len(probe) < MaxNotes
  /\ \E site \in NoteSites : \E metadata \in NoteMetadata(site) :
       probe' = Append(probe, note_content(site, metadata))
  /\ UNCHANGED <<store, bookings, now, call, sweep, quiet, op, activity, upsert>>

NextNotes == LogNote

SpecNotes == InitNotes /\ [][NextNotes]_vars

\* C32: no activity note written to the store carries the lead's email address
\* or phone number, whatever metadata key the value was passed under.
NotesCarryNoContactData ==
  \A i \in 1..Len(probe) : \A j \in 1..Len(probe[i].lines) :
    probe[i].lines[j].value \notin {"lead_email", "lead_phone"}

\* ------------------------------------------ submission with a failing sink
\* process_typeform_submission when the operator notification can fail.  probe
\* keeps, next to the sink's outcome, what the same call with the same answers
\* from the store, Calendly and SendGrid gives when the sink delivers.
NoNotify == [slack |-> "ok", st |-> Absent, raised |-> FALSE]

InitNotify ==
  /\ store \in [Leads -> {Absent} \cup NurturingLeads]
  /\ bookings = {}
  /\ now = StartDay
  /\ call = NoCall
  /\ sweep = SweepIdle
  /\ quiet = "no"
  /\ op = OpNone
  /\ activity = [l \in Leads |-> <<>>]
  /\ upsert = NoUpsert
  /\ probe = NoNotify

SubmitNotify(l) ==
  /\ op = OpNone
  /\ \E upsertOk \in BOOLEAN :
     \E calOk \in Outcome(upsertOk) :
     \E markOk \in Outcome(upsertOk /\ calOk /\ l \in bookings) :
     \E stateOk \in Outcome(upsertOk /\ calOk) :
     \E sendOk \in Outcome(upsertOk /\ calOk /\ stateOk) :
     \E trackOk \in Outcome(upsertOk /\ calOk /\ stateOk /\ sendOk) :
     \E slack \in IF upsertOk /\ calOk /\ stateOk THEN SlackOutcomes ELSE {"ok"} :
       LET in == [upsertOk |-> upsertOk, markOk |-> markOk,
                  stateOk |-> stateOk, sendOk |-> sendOk, trackOk |-> trackOk,
                  slack |-> slack]
           bk == check_booking(l, bookings, calOk)
           x == process_typeform_submission(Ctx(store[l]), bk, now, in)
           delivered == process_typeform_submission(
                          Ctx(store[l]), bk, now, [in EXCEPT !.slack = "ok"])
       IN /\ store' = [store EXCEPT ![l] = x.st]
          /\ op' = Done("submit", l, store[l], x,
                        [Flags EXCEPT !.bk = bk,
                                      !.status = IF x.raised THEN "error" ELSE "success"])
          /\ probe' = [slack |-> slack, st |-> delivered.st,
                       raised |-> delivered.raised]
          /\ UNCHANGED <<bookings, now, call, sweep, quiet, activity, upsert>>

NextNotify ==
  \/ \E l \in Leads : SubmitNotify(l)
  \/ \E l \in Leads : Book(l)
  \/ Return

SpecNotify == InitNotify /\ [][NextNotify]_vars

\* C33: a failure of the notification sink is never raised to the operation
\* that issued the notification: when process_typeform_submission returns, the
\* lead's stored record and the result (returned or failed) are the ones the
\* same call has when the notification is delivered.
NotificationFailureNotRaised ==
  op.name = "submit"
    => /\ store[op.lead] = probe.st
       /\ op.raised = probe.raised

\* C34 as stated: in a sweep the report generator is invoked if and only if the
\* lead's next step is 3, 5 or 7 and that step is due.  (The generator was
\* invoked when it produced a report, or when the pass failed on a lead
\* without a booking whose next step has a report.)
ReportIffReportStepDue ==
  [][(op = OpNone /\ op'.name = "sweep_lead")
       => LET lead == Head(sweep.todo)
              next_step == lead.email_sequence_step + 1
              due == should_send_email(lead.last_email_sent, next_step, now)
              invoked == \/ op'.reports # <<>>
                         \/ op'.raised /\ op'.bk = "none" /\ next_step \in {3, 5, 7}
          IN invoked <=> (next_step \in {3, 5, 7} /\ due)]_vars

\* C34: in a sweep pass over a lead for which the booking check found no
\* booking, the report generator is invoked if and only if the lead's next
\* step is 3, 5 or 7 and that step is due; it runs once, for that step, and
\* before the nurture email: when it fails no email has been sent, when it
\* succeeds the email of the step is attempted.  A due step without a report
\* is sent all the same, so being due does not depend on the report.  When the
\* booking check finds a booking or fails, no report is generated.
ReportBeforeDueSend ==
  [][(op = OpNone /\ op'.name = "sweep_lead")
       => LET lead == Head(sweep.todo)
              next_step == lead.email_sequence_step + 1
              due == should_send_email(lead.last_email_sent, next_step, now)
              nurture == \E i \in 1..Len(op'.emails) :
                           /\ op'.emails[i].kind = "nurture"
                           /\ op'.emails[i].step = next_step
          IN /\ op'.bk # "none" => op'.reports = <<>>
             /\ (op'.bk = "none" /\ next_step \in {3, 5, 7} /\ due)
                  => \/ op'.reports = <<next_step>> /\ ~op'.raised /\ nurture
                     \/ op'.reports = <<>> /\ op'.raised /\ op'.emails = <<>>
             /\ (op'.bk = "none" /\ ~(next_step \in {3, 5, 7} /\ due))
                  => op'.reports = <<>>
             /\ (op'.bk = "none" /\ next_step \in 1..8 \ {3, 5, 7})
                  => (due <=> nurture)]_vars

ReportMadeThenEmailSent ==
  /\ op.name = "sweep_lead"
  /\ op.bk = "none"
  /\ op.reports = <<3>>
  /\ \E i \in 1..Len(op.emails) :
       op.emails[i] = [kind |-> "nurture", step |-> 3, ok |-> TRUE]

\* ------------------------------------------------- the body of an SMS reply
\* The send_response branch of SMSHandler._handle_sms_analysis on its own.  A
\* text is a sequence of characters; the suggested replies tried are runs of
\* "a" with at most one "b" in them, of a few short lengths and of every
\* length from just under the budget to MaxBody.
\* the longest suggested reply tried
MaxBody == 302

BodyLengths == 0..2 \cup 296..MaxBody

SuggestedResponses ==
  UNION { { [i \in 1..n |-> IF i = k THEN "b" ELSE "a"] : k \in 0..n } :
          n \in BodyLengths }

response_cut_at_budget(response) ==
  IF Len(response) > 300
    THEN SubSeq(response, 1, 300) \o <<".", ".", ".">>
    ELSE response

\* response = analysis['suggested_response'];
\* if len(response) > 300: response = response[:297] + "..."
response_for_sms(response) ==
  IF Len(response) > 300
    THEN SubSeq(response, 1, 297) \o <<".", ".", ".">>
    ELSE response

InitSmsBody ==
  /\ store = [l \in Leads |-> Absent]
  /\ bookings = {}
  /\ now = StartDay
  /\ call = NoCall
  /\ sweep = SweepIdle
  /\ quiet = "no"
  /\ op = OpNone
  /\ activity = [l \in Leads |-> <<>>]
  /\ upsert = NoUpsert
  /\ probe \in [pc : {"call"}, suggested : SuggestedResponses, body : {<<>>}]

SmsBodyEval ==
  /\ probe.pc = "call"
  /\ probe' = [probe EXCEPT !.pc = "done", !.body = response_for_sms(probe.suggested)]
  /\ UNCHANGED <<store, bookings, now, call, sweep, quiet, op, activity, upsert>>

NextSmsBody == SmsBodyEval

SpecSmsBody == InitSmsBody /\ [][NextSmsBody]_vars

\* C35: on the SMS respond path the outbound body is the suggested reply
\* unchanged when it has at most 300 characters, and otherwise its first 297
\* characters followed by "..."; the body never exceeds 300 characters.
ReplyFitsSmsBudget ==
  probe.pc = "done"
    => /\ Len(probe.body) <= 300
       /\ Len(probe.suggested) <= 300 => probe.body = probe.suggested
       /\ Len(probe.suggested) > 300
            => /\ Len(probe.body) = 300
               /\ \A i \in 1..297 : probe.body[i] = probe.suggested[i]
               /\ \A i \in 298..300 : probe.body[i] = "."

LongReplyShortened ==
  /\ probe.pc = "done"
  /\ Len(probe.suggested) = 301
  /\ probe.suggested[297] = "b"
  /\ probe.body[297] = "b"
  /\ Len(probe.body) = 300

\* C36: in one sweep pass over a lead at most one nurture email is sent, and
\* the stored cursor changes only by moving from s to s + 1, which happens if
\* and only if the email of step s + 1 was sent successfully; otherwise the
\* cursor and the last-sent time are unchanged.
CursorMovesIffEmailSent ==
  [][(op = OpNone /\ op'.name = "sweep_lead")
       => LET l == op'.lead
              s == store[l].email_sequence_step
              nurture == {i \in 1..Len(op'.emails) : op'.emails[i].kind = "nurture"}
              sent == \E i \in nurture :
                        op'.emails[i].step = s + 1 /\ op'.emails[i].ok
          IN /\ Cardinality(nurture) <= 1
             /\ store'[l].email_sequence_step \in {s, s + 1}
             /\ store'[l].email_sequence_step = s + 1 <=> sent
             /\ ~sent => store'[l].last_email_sent = store[l].last_email_sent]_vars

\* ------------------------------------------------ the sweep in the long run
\* Repeated sweeps over leads in the nurture sequence while the days go by, a
\* lead may book, and nobody writes in.  The leads start with any cursor and
\* last-send time update_email_tracking can have left.  should_send_email
\* reads the clock only to compare it with last_email_sent plus a delay of at
\* most schedule[8] days, so a passing day is kept finite by holding the clock
\* at StartDay and moving every stored time-stamp one day back, down to day 0
\* (sent schedule[8] days ago or earlier).
LastSentDays == {0, StartDay - 3, StartDay}

LiveLeads ==
  {[CreatedLead EXCEPT !.agent_state = "NURTURING"]}
  \cup {[CreatedLead EXCEPT !.agent_state = "NURTURING",
                            !.email_sequence_step = c,
                            !.last_email_sent = isoformat(t)] :
          c \in 0..8, t \in LastSentDays}

InitLive ==
  /\ store \in [Leads -> LiveLeads]
  /\ bookings = {}
  /\ now = StartDay
  /\ call = NoCall
  /\ sweep = SweepIdle
  /\ quiet = "no"
  /\ op = OpNone
  /\ probe = [pc |-> "idle", step |-> 0, last |-> EmptyStr, utcnow |-> 0, ready |-> FALSE]
  /\ activity = [l \in Leads |-> <<>>]
  /\ upsert = NoUpsert

\* a time-stamp string one day older
day_older(s) ==
  IF s.kind = "iso" /\ s.t > 0 THEN isoformat(s.t - 1) ELSE s

\* a day passes
LiveTick ==
  /\ op = OpNone
  /\ \E l \in Leads : day_older(store[l].last_email_sent) # store[l].last_email_sent
  /\ store' = [l \in Leads |->
                 [store[l] EXCEPT !.last_email_sent = day_older(@)]]
  /\ sweep' = [sweep EXCEPT !.todo =
                 [i \in 1..Len(sweep.todo) |->
                    [sweep.todo[i] EXCEPT !.last_email_sent = day_older(@)]]]
  /\ quiet' = "no"
  /\ UNCHANGED <<bookings, now, call, op, probe, activity, upsert>>

\* a pass of the sweep in which nothing failed: no exception, every email
\* accepted, the tracking write made
SweepLeadOk ==
  /\ SweepLead
  /\ ~op'.raised
  /\ \A i \in 1..Len(op'.emails) : op'.emails[i].ok
  /\ (\E i \in 1..Len(op'.emails) : op'.emails[i].kind = "nurture")
       => \E j \in 1..Len(op'.logs) : op'.logs[j].note = "sent_email"

NextLive ==
  \/ SweepStart
  \/ SweepLead
  \/ SweepFinish
  \/ Return
  \/ \E l \in Leads : Book(l)
  \/ LiveTick

\* the sweep is started again and again and runs to its end; the days go by
\* whatever the service does (a day is counted between two handler steps, so
\* the fairness is strong); a pass that is tried again and again at last goes
\* through
SpecLive ==
  /\ InitLive
  /\ [][NextLive]_vars
  /\ WF_vars(SweepStart)
  /\ WF_vars(SweepFinish)
  /\ WF_vars(Return)
  /\ SF_vars(LiveTick)
  /\ SF_vars(SweepLeadOk)

\* C37: under repeated sweeps with advancing time, sends and store writes that
\* eventually succeed, and no inbound reply, every lead in NURTURING
\* eventually leaves NURTURING, to BOOKED or SEQUENCE_COMPLETE.
NurturingLeadLeaves ==
  \A l \in Leads :
    (store[l].agent_state = "NURTURING")
      ~> (store[l].agent_state \in {"BOOKED", "SEQUENCE_COMPLETE"})

SweepEndedNurture ==
  /\ op.name = "sweep_lead"
  /\ op.pre = "NURTURING"
  /\ op.bk = "none"
  /\ store[op.lead].agent_state = "SEQUENCE_COMPLETE"
  /\ store[op.lead].email_sequence_step = 8

\* C38: in the aggregate of a sweep each processed lead contributes to at most
\* one of emails_sent, bookings_detected and escalations: a pass adds at most
\* one to leads_processed and to no more of the three counters than it adds
\* to leads_processed, so emails_sent + bookings_detected + escalations <=
\* leads_processed <= the number of leads in the sweep's list (the leads taken
\* off the list so far), and the summary returns these counts.
AggregateCountsEachLeadOnce ==
  [][/\ (op = OpNone /\ op'.name = "sweep_lead")
          => LET a == sweep.results
                 b == sweep'.results
                 taken == Len(sweep.todo) - Len(sweep'.todo)
             IN /\ op'.results = b
                /\ b.emails_sent >= a.emails_sent
                /\ b.bookings_detected >= a.bookings_detected
                /\ b.escalations >= a.escalations
                /\ (b.emails_sent - a.emails_sent)
                     + (b.bookings_detected - a.bookings_detected)
                     + (b.escalations - a.escalations)
                     <= b.leads_processed - a.leads_processed
                /\ b.leads_processed - a.leads_processed \in {0, 1}
                /\ taken = 1
                /\ b.emails_sent + b.bookings_detected + b.escalations
                     <= b.leads_processed
                /\ b.leads_processed + Len(sweep'.todo) <= NumLeads
     /\ (sweep.pc = "idle" /\ sweep'.pc = "run")
          => /\ sweep'.results = NoResults
             /\ Len(sweep'.todo) <= NumLeads
     /\ (op = OpNone /\ op'.name = "sweep_summary")
          => /\ op'.results = sweep.results
             /\ sweep.todo = <<>>]_vars

SweepReturnedOneEmail ==
  /\ op.name = "sweep_summary"
  /\ op.results = [leads_processed |-> 1, emails_sent |-> 1,
                   bookings_detected |-> 0, escalations |-> 0]

\* C39: in the result of a proactive-call run every attempted lead is counted
\* exactly once: what the attempt adds to calls_made and to errors sums to
\* one, also when the CALLING write fails after a successful call request.
AttemptCountedOnce ==
  op.name = "proactive_call"
    => LET calls_made == IF op.status \in {"call_made", "call_made_and_error"}
                           THEN 1 ELSE 0
           errors == IF op.status \in {"error", "call_made_and_error"}
                       THEN 1 ELSE 0
       IN calls_made + errors = 1
====
